---- MODULE Spec2Model ----
(***************************************************************************)
(* Model of the decay-grid construction of DT-LLM-Vessel: the script       *)
(* 3dview.py, the function plot_3d_speed_fuel_decay of                     *)
(* Presentation/generate_plots.py and the batch driver main().             *)
(*                                                                         *)
(* Numbers.  Decay coefficients are scaled by 1000 (0.95 -> 950,           *)
(* 0.975 -> 975, 1.0 -> 1000) and speeds are whole knots, so both are      *)
(* integers.  A measurement (Fuel_Flow, T48, a mean, a normalized value)   *)
(* is a float, modelled as a pair <<n, d>>: d > 0 is the exact rational    *)
(* n/d in lowest terms, <<0,0>> is NaN (pandas' missing value), <<1,0>>    *)
(* and <<-1,0>> are +inf and -inf.  Rounding of binary floats is not       *)
(* modelled.                                                               *)
(***************************************************************************)
EXTENDS Integers, Sequences, FiniteSets, TLC

\* ------------------------------------------------------------------ bounds
MaxRows == 2

\* ------------------------------------------------------------------ floats
NaN == <<0, 0>>
PosInf == <<1, 0>>
NegInf == <<0 - 1, 0>>
F(n) == <<n, 1>>

IsNaN(x) == x = NaN
IsFinite(x) == x[2] > 0

Abs(n) == IF n < 0 THEN 0 - n ELSE n

RECURSIVE GCD(_, _)
GCD(a, b) == IF b = 0 THEN a ELSE GCD(b, a % b)

\* n/d for d # 0, in lowest terms with a positive denominator
Ratio(n, d) ==
    LET s == IF d < 0 THEN 0 - 1 ELSE 1
        g == GCD(Abs(n), Abs(d))
    IN  <<(s * n) \div g, (s * d) \div g>>

\* a + b of two floats (IEEE: NaN propagates, inf + -inf is NaN)
FAdd(a, b) ==
    IF IsNaN(a) \/ IsNaN(b) THEN NaN
    ELSE IF IsFinite(a) /\ IsFinite(b) THEN Ratio(a[1] * b[2] + b[1] * a[2], a[2] * b[2])
    ELSE IF IsFinite(b) THEN a
    ELSE IF IsFinite(a) THEN b
    ELSE IF a = b THEN a ELSE NaN

FNeg(a) == <<0 - a[1], a[2]>>

\* a - b of two floats
FSub(a, b) == FAdd(a, FNeg(b))

\* a / b of two floats as numpy divides: x/0 is +-inf, 0/0 is NaN, no exception
FDiv(a, b) ==
    IF IsNaN(a) \/ IsNaN(b) THEN NaN
    ELSE IF IsFinite(a) /\ IsFinite(b) THEN
        IF b[1] = 0
        THEN (IF a[1] = 0 THEN NaN ELSE IF a[1] > 0 THEN PosInf ELSE NegInf)
        ELSE Ratio(a[1] * b[2], a[2] * b[1])
    ELSE IF IsFinite(b) THEN (IF b[1] < 0 THEN FNeg(a) ELSE a)
    ELSE IF IsFinite(a) THEN F(0)
    ELSE NaN

\* a < b; every comparison with NaN is false
FLess(a, b) ==
    /\ ~IsNaN(a)
    /\ ~IsNaN(b)
    /\ a # b
    /\ IF IsFinite(a) /\ IsFinite(b) THEN a[1] * b[2] < b[1] * a[2]
       ELSE IF IsFinite(a) THEN b = PosInf
       ELSE a = NegInf

\* a == b as floats: NaN equals nothing, itself included
FEq(a, b) == ~IsNaN(a) /\ ~IsNaN(b) /\ a = b

\* ----------------------------------------------------------------- dataset
\* The columns of cleaned_data.csv that the modelled code names.
AllColumns ==
    {"Ship_Speed", "Compressor_Decay", "Turbine_Decay", "Fuel_Flow", "T48", "T2", "P48", "P2"}

\* The columns whose values the model carries in a row.
Fields == {"Ship_Speed", "Compressor_Decay", "Turbine_Decay", "Fuel_Flow", "T48"}

\* speed_val = 15 of 3dview.py; generate_plots.py writes the literal 15.
speed_val == 15

Speeds == {9, speed_val}
CompressorDecays == {950, 1000}
TurbineDecays == {975, 1000}
FuelValues == {NaN, F(10), F(12)}
T48Values == {NaN, F(5), F(6)}

\* One observation.  Speed and decay coefficients are never missing; a
\* measurement may be.  A row that the speed filter drops contributes only its
\* decay pair, so its measurements are fixed.
RowDomain ==
    {r \in [Ship_Speed : Speeds, Compressor_Decay : CompressorDecays,
            Turbine_Decay : TurbineDecays, Fuel_Flow : FuelValues, T48 : T48Values] :
        r.Ship_Speed # speed_val => (r.Fuel_Flow = F(10) /\ r.T48 = F(5))}

Row(s, cd, td, fuel, t48) ==
    [Ship_Speed |-> s, Compressor_Decay |-> cd, Turbine_Decay |-> td,
     Fuel_Flow |-> fuel, T48 |-> t48]

\* The scenario of the specification, all rows at the plotted speed:
\* (1.0,1.0,10), (1.0,1.0,12), (0.95,1.0,20), (0.95,0.975,30).
ScenarioRows ==
    << Row(speed_val, 1000, 1000, F(10), F(5)),
       Row(speed_val, 1000, 1000, F(12), F(6)),
       Row(speed_val, 950, 1000, F(20), F(7)),
       Row(speed_val, 950, 975, F(30), F(9)) >>

\* A longer table: one decay pair with a row at another speed, a missing
\* Fuel_Flow, a missing T48 and two different values; larger decays first.
MixedRows ==
    << Row(speed_val, 1000, 1000, F(12), NaN),
       Row(9, 1000, 1000, F(10), F(5)),
       Row(speed_val, 1000, 1000, NaN, F(6)),
       Row(speed_val, 1000, 1000, F(10), F(5)),
       Row(speed_val, 950, 975, F(10), F(6)) >>

\* A table in which the decay pair (0.95, 1.0) has a row but no measurement,
\* while both of its decay values occur in pairs that have one; the pair
\* (0.95, 0.975) has a missing Fuel_Flow between two values.
MissingRows ==
    << Row(speed_val, 950, 975, F(10), F(5)),
       Row(speed_val, 950, 975, NaN, F(5)),
       Row(speed_val, 950, 975, F(12), F(6)),
       Row(speed_val, 1000, 1000, F(10), F(5)),
       Row(speed_val, 950, 1000, NaN, NaN) >>

\* The tables read_csv may deliver: every table of at most MaxRows rows, and
\* the longer ones.
Datasets ==
    (UNION {[1..n -> RowDomain] : n \in 0..MaxRows}) \cup {ScenarioRows, MixedRows, MissingRows}

\* The row as read from a file that has only the columns cols.
Restrict(r, cols) == [c \in (cols \cap Fields) |-> r[c]]

\* --------------------------------------------------------------- selection
\* df[df['Ship_Speed'] == speed_val]: the rows at the plotted speed, in order.
SpeedMask(r) == r.Ship_Speed = speed_val

RECURSIVE BoolIndex(_)
BoolIndex(rows) ==
    IF rows = <<>> THEN <<>>
    ELSE IF SpeedMask(Head(rows)) THEN <<Head(rows)>> \o BoolIndex(Tail(rows))
    ELSE BoolIndex(Tail(rows))

\* ------------------------------------------------------------- pivot_table
\* Mutant: the keys in descending order.
RECURSIVE SortKeys_Descending(_)
SortKeys_Descending(S) ==
    IF S = {} THEN <<>>
    ELSE LET m == CHOOSE x \in S : \A y \in S : x >= y
         IN  <<m>> \o SortKeys_Descending(S \ {m})

\* The ascending order of a set of numbers (groupby sort=True, sort_index).
RECURSIVE SortKeys(_)
SortKeys(S) ==
    IF S = {} THEN <<>>
    ELSE LET m == CHOOSE x \in S : \A y \in S : x <= y
         IN  <<m>> \o SortKeys(S \ {m})

NoGroups == [k \in {} |-> [sum |-> F(0), count |-> 0]]

\* Mutant: a missing value is counted in the divisor.
Accumulate_CountsMissing(old, v) ==
    IF IsNaN(v) THEN [sum |-> old.sum, count |-> old.count + 1]
    ELSE [sum |-> FAdd(old.sum, v), count |-> old.count + 1]

\* One row added to its group: a missing value enters neither sum nor count.
Accumulate(old, v) ==
    IF IsNaN(v) THEN old ELSE [sum |-> FAdd(old.sum, v), count |-> old.count + 1]

\* groupby(['Compressor_Decay', 'Turbine_Decay']): one pass over the rows,
\* one accumulator per decay pair met.
RECURSIVE GroupBy(_, _, _)
GroupBy(rows, field, acc) ==
    IF rows = <<>> THEN acc
    ELSE LET r == Head(rows)
             k == <<r.Compressor_Decay, r.Turbine_Decay>>
             old == IF k \in DOMAIN acc THEN acc[k] ELSE [sum |-> F(0), count |-> 0]
             new == Accumulate(old, r[field])
         IN  GroupBy(Tail(rows), field,
                     [x \in (DOMAIN acc) \cup {k} |-> IF x = k THEN new ELSE acc[x]])

\* Mutant: the mean of a group without a value is zero.
GroupMean_ZeroWithoutValue(g) == IF g.count = 0 THEN F(0) ELSE FDiv(g.sum, F(g.count))

\* aggfunc='mean' of one group: NaN when every value of the group is missing.
GroupMean(g) == IF g.count = 0 THEN NaN ELSE FDiv(g.sum, F(g.count))

\* The aggregated frame: decay pair -> mean.
Agg(rows, field) ==
    LET g == GroupBy(rows, field, NoGroups)
    IN  [k \in DOMAIN g |-> GroupMean(g[k])]

\* agged.dropna(how='all'), pivot_table's default dropna=True: the groups
\* whose mean is NaN are removed before the table is laid out.
DropNaGroups(agged) == {k \in DOMAIN agged : ~IsNaN(agged[k])}

\* Mutant: fill_value=0.
FillValue_Zero == F(0)

\* The value of a pair that has no group: fill_value=None leaves NaN.
FillValue == NaN

\* unstack: rows keyed by the compressor decays and columns by the turbine
\* decays of the groups kept, each in ascending order.
Unstack(agged, kept) ==
    LET idx == SortKeys({k[1] : k \in kept})
        col == SortKeys({k[2] : k \in kept})
    IN  [index |-> idx,
         columns |-> col,
         values |-> [i \in 1..Len(idx) |-> [j \in 1..Len(col) |->
                        IF <<idx[i], col[j]>> \in kept
                        THEN agged[<<idx[i], col[j]>>] ELSE FillValue]]]

\* table.dropna(how='all', axis=1): a column without any value is removed.
DropNaColumns(t) ==
    LET keep == {j \in 1..Len(t.columns) :
                    \E i \in 1..Len(t.index) : ~IsNaN(t.values[i][j])}
        pos == SortKeys(keep)
    IN  [index |-> t.index,
         columns |-> [n \in 1..Len(pos) |-> t.columns[pos[n]]],
         values |-> [i \in 1..Len(t.index) |-> [n \in 1..Len(pos) |-> t.values[i][pos[n]]]]]

\* rows.pivot_table(values=field, index='Compressor_Decay',
\*                  columns='Turbine_Decay', aggfunc='mean')
pivot_table(rows, field) ==
    LET agged == Agg(rows, field)
    IN  DropNaColumns(Unstack(agged, DropNaGroups(agged)))

\* A frame or array not yet assigned.
Unset == [index |-> <<>>, columns |-> <<>>, values |-> <<>>]

\* ------------------------------------------------------------------- numpy
\* The cells of a two-dimensional array, as a set of positions.
Cells(a) == UNION {{<<i, j>> : j \in DOMAIN a[i]} : i \in DOMAIN a}

Size(a) == Cardinality(Cells(a))

\* ndarray.min(): NaN as soon as one cell is NaN (it is no nanmin).
ArrayMin(a) ==
    IF \E p \in Cells(a) : IsNaN(a[p[1]][p[2]]) THEN NaN
    ELSE LET p == CHOOSE p \in Cells(a) :
                    \A q \in Cells(a) : ~FLess(a[q[1]][q[2]], a[p[1]][p[2]])
         IN  a[p[1]][p[2]]

\* ndarray.max()
ArrayMax(a) ==
    IF \E p \in Cells(a) : IsNaN(a[p[1]][p[2]]) THEN NaN
    ELSE LET p == CHOOSE p \in Cells(a) :
                    \A q \in Cells(a) : ~FLess(a[p[1]][p[2]], a[q[1]][q[2]])
         IN  a[p[1]][p[2]]

\* (Temp - min_temp) / (max_temp - min_temp), cell by cell
Rescale(a, lo, hi) ==
    [i \in DOMAIN a |-> [j \in DOMAIN a[i] |-> FDiv(FSub(a[i][j], lo), FSub(hi, lo))]]

\* ------------------------------------------------------------------- state
VARIABLES
    prog,        \* the program running: "3dview", "plot_3d", "main", "main_old"
    pc,          \* the statement to execute next
    exc,         \* the uncaught exception that ended the run, or "none"
    columns,     \* df.columns
    df,          \* the table read from cleaned_data.csv
    df_speed,    \* df_speed (df_3d in 3dview.py): the rows at the plotted speed
    pivot,       \* 3dview.py: the first Fuel_Flow table
    fuel_pivot,  \* fuel_pivot (pivot_z in 3dview.py)
    temp_pivot,  \* temp_pivot (pivot_temp in 3dview.py)
    X_vals,      \* the turbine decays handed to meshgrid
    Y_vals,      \* the compressor decays handed to meshgrid
    Z,           \* the heights of the surface
    min_temp,    \* min_temp (vmin of Normalize)
    max_temp,    \* max_temp (vmax of Normalize)
    Temp_norm,   \* Temp_norm (norm(temp_pivot.values) in generate_plots.py)
    figures,     \* the number of pyplot figures open
    saved,       \* the image files written, in order
    chart,       \* main(): the position of the chart function being run, 0 outside
    ip,          \* main(): the statement of that chart function to execute next
    folder,      \* main(): whether the output folder is known to exist
    df_selected, \* line charts: the rows selected for the lines
    df_avg,      \* line charts: one row per (Compressor_Decay, Ship_Speed) with the mean
    lines        \* line charts: the lines handed to plt.plot, in order

vars == <<prog, pc, exc, columns, df, df_speed, pivot, fuel_pivot, temp_pivot,
          X_vals, Y_vals, Z, min_temp, max_temp, Temp_norm, figures, saved, chart, ip, folder,
          df_selected, df_avg, lines>>

lineplot == <<df_selected, df_avg, lines>>

grids == <<df_speed, pivot, fuel_pivot, temp_pivot, X_vals, Y_vals, Z,
           min_temp, max_temp, Temp_norm>>

\* The state of a program about to execute its first statement.
Start(p, l) ==
    /\ prog = p
    /\ pc = l
    /\ exc = "none"
    /\ columns = {}
    /\ df = <<>>
    /\ df_speed = <<>>
    /\ pivot = Unset
    /\ fuel_pivot = Unset
    /\ temp_pivot = Unset
    /\ X_vals = <<>>
    /\ Y_vals = <<>>
    /\ Z = <<>>
    /\ min_temp = NaN
    /\ max_temp = NaN
    /\ Temp_norm = <<>>
    /\ figures = 0
    /\ saved = <<>>
    /\ chart = 0
    /\ ip = 0
    /\ folder = FALSE
    /\ df_selected = <<>>
    /\ df_avg = <<>>
    /\ lines = <<>>

\* raise: the statement is left with the exception in flight.
Raise(e) ==
    /\ exc' = e
    /\ pc' = "raised"

\* The files the grid programs may be given: every table with all columns,
\* and the scenario table with one column absent.
GridInputs ==
    {[rows |-> d, cols |-> AllColumns] : d \in Datasets}
        \cup {[rows |-> ScenarioRows, cols |-> AllColumns \ {c}] : c \in Fields}

\* pd.read_csv: the rows of the file, with the columns the file has.
Frame(in) == [i \in 1..Len(in.rows) |-> Restrict(in.rows[i], in.cols)]

\* ------------------------------------------------------------ plot_surface
\* Axes3D.plot_surface is library code.  What it does with arrays that have
\* no cell, or with face colours whose shape differs from that of the
\* heights, is not decided by this repository: both outcomes are kept.
SameShape(a, b) == Cells(a) = Cells(b)

SurfaceOutcomes(z, colored, c) ==
    IF Size(z) = 0 THEN {"drawn", "ValueError"}
    ELSE IF colored /\ ~SameShape(z, c) THEN {"drawn", "IndexError"}
    ELSE {"drawn"}

\* --------------------------------------------------------------- 3dview.py
\* line 8: df = pd.read_csv('cleaned_data.csv')
View_ReadCsv ==
    /\ prog = "3dview"
    /\ pc = "read_csv"
    /\ \E in \in GridInputs :
        /\ df' = Frame(in)
        /\ columns' = in.cols
    /\ pc' = "filter"
    /\ UNCHANGED <<lineplot, prog, exc, grids, figures, saved, chart, ip, folder>>

\* line 13: df_3d = df[df['Ship_Speed'] == speed_val]
View_Filter ==
    /\ prog = "3dview"
    /\ pc = "filter"
    /\ \/ /\ "Ship_Speed" \notin columns
          /\ Raise("KeyError")
          /\ UNCHANGED df_speed
       \/ /\ "Ship_Speed" \in columns
          /\ df_speed' = BoolIndex(df)
          /\ pc' = "pivot"
          /\ UNCHANGED exc
    /\ UNCHANGED <<lineplot, prog, columns, df, pivot, fuel_pivot, temp_pivot, X_vals, Y_vals, Z,
                   min_temp, max_temp, Temp_norm, figures, saved, chart, ip, folder>>

\* line 17: pivot = df_3d.pivot_table(values='Fuel_Flow', ...)
View_Pivot ==
    /\ prog = "3dview"
    /\ pc = "pivot"
    /\ \/ /\ ~({"Fuel_Flow", "Compressor_Decay", "Turbine_Decay"} \subseteq columns)
          /\ Raise("KeyError")
          /\ UNCHANGED pivot
       \/ /\ {"Fuel_Flow", "Compressor_Decay", "Turbine_Decay"} \subseteq columns
          /\ pivot' = pivot_table(df_speed, "Fuel_Flow")
          /\ pc' = "meshgrid"
          /\ UNCHANGED exc
    /\ UNCHANGED <<lineplot, prog, columns, df, df_speed, fuel_pivot, temp_pivot, X_vals, Y_vals, Z,
                   min_temp, max_temp, Temp_norm, figures, saved, chart, ip, folder>>

\* lines 19-22: X_vals, Y_vals, meshgrid, Z = pivot.values
View_Meshgrid ==
    /\ prog = "3dview"
    /\ pc = "meshgrid"
    /\ X_vals' = pivot.columns
    /\ Y_vals' = pivot.index
    /\ Z' = pivot.values
    /\ pc' = "surface1"
    /\ UNCHANGED <<lineplot, prog, exc, columns, df, df_speed, pivot, fuel_pivot, temp_pivot,
                   min_temp, max_temp, Temp_norm, figures, saved, chart, ip, folder>>

\* lines 25-55: the first figure, plot_surface(X, Y, Z), savefig
View_Surface1 ==
    /\ prog = "3dview"
    /\ pc = "surface1"
    /\ figures' = figures + 1
    /\ \E o \in SurfaceOutcomes(Z, FALSE, <<>>) :
        \/ /\ o # "drawn"
           /\ Raise(o)
           /\ UNCHANGED saved
        \/ /\ o = "drawn"
           /\ saved' = Append(saved, "advanced_engine_surface_3d.png")
           /\ pc' = "pivot_z"
           /\ UNCHANGED exc
    /\ UNCHANGED <<lineplot, prog, columns, df, grids, chart, ip, folder>>

\* Mutant: the second table is built from the table as read, without the
\* speed filter.
View_PivotZ_Unfiltered ==
    /\ prog = "3dview"
    /\ pc = "pivot_z"
    /\ fuel_pivot' = pivot_table(df, "Fuel_Flow")
    /\ Z' = fuel_pivot'.values
    /\ pc' = "pivot_temp"
    /\ UNCHANGED <<lineplot, prog, exc, columns, df, df_speed, pivot, temp_pivot, X_vals, Y_vals,
                   min_temp, max_temp, Temp_norm, figures, saved, chart, ip, folder>>

\* lines 58-59: pivot_z = df_3d.pivot_table(values='Fuel_Flow', ...); Z = pivot_z.values
View_PivotZ ==
    /\ prog = "3dview"
    /\ pc = "pivot_z"
    /\ fuel_pivot' = pivot_table(df_speed, "Fuel_Flow")
    /\ Z' = fuel_pivot'.values
    /\ pc' = "pivot_temp"
    /\ UNCHANGED <<lineplot, prog, exc, columns, df, df_speed, pivot, temp_pivot, X_vals, Y_vals,
                   min_temp, max_temp, Temp_norm, figures, saved, chart, ip, folder>>

\* lines 63-64: pivot_temp = df_3d.pivot_table(values='T48', ...); Temp = pivot_temp.values
View_PivotTemp ==
    /\ prog = "3dview"
    /\ pc = "pivot_temp"
    /\ \/ /\ "T48" \notin columns
          /\ Raise("KeyError")
          /\ UNCHANGED temp_pivot
       \/ /\ "T48" \in columns
          /\ temp_pivot' = pivot_table(df_speed, "T48")
          /\ pc' = "minmax"
          /\ UNCHANGED exc
    /\ UNCHANGED <<lineplot, prog, columns, df, df_speed, pivot, fuel_pivot, X_vals, Y_vals, Z,
                   min_temp, max_temp, Temp_norm, figures, saved, chart, ip, folder>>

\* line 67: min_temp, max_temp = Temp.min(), Temp.max()
View_MinMax ==
    /\ prog = "3dview"
    /\ pc = "minmax"
    /\ \/ /\ Size(temp_pivot.values) = 0
          /\ Raise("ValueError")
          /\ UNCHANGED <<min_temp, max_temp>>
       \/ /\ Size(temp_pivot.values) > 0
          /\ min_temp' = ArrayMin(temp_pivot.values)
          /\ max_temp' = ArrayMax(temp_pivot.values)
          /\ pc' = "norm"
          /\ UNCHANGED exc
    /\ UNCHANGED <<lineplot, prog, columns, df, df_speed, pivot, fuel_pivot, temp_pivot, X_vals, Y_vals,
                   Z, Temp_norm, figures, saved, chart, ip, folder>>

\* line 68: Temp_norm = (Temp - min_temp) / (max_temp - min_temp)
View_Norm ==
    /\ prog = "3dview"
    /\ pc = "norm"
    /\ Temp_norm' = Rescale(temp_pivot.values, min_temp, max_temp)
    /\ pc' = "surface2"
    /\ UNCHANGED <<lineplot, prog, exc, columns, df, df_speed, pivot, fuel_pivot, temp_pivot, X_vals,
                   Y_vals, Z, min_temp, max_temp, figures, saved, chart, ip, folder>>

\* lines 71-84: the second figure, plot_surface(X, Y, Z, facecolors=cm.magma(Temp_norm))
View_Surface2 ==
    /\ prog = "3dview"
    /\ pc = "surface2"
    /\ figures' = figures + 1
    /\ \E o \in SurfaceOutcomes(Z, TRUE, Temp_norm) :
        \/ /\ o # "drawn"
           /\ Raise(o)
        \/ /\ o = "drawn"
           /\ pc' = "show"
           /\ UNCHANGED exc
    /\ UNCHANGED <<lineplot, prog, columns, df, grids, saved, chart, ip, folder>>

\* line 86: plt.show()
View_Show ==
    /\ prog = "3dview"
    /\ pc = "show"
    /\ pc' = "done"
    /\ UNCHANGED <<lineplot, prog, exc, columns, df, grids, figures, saved, chart, ip, folder>>

\* ----------------------------------- generate_plots.plot_3d_speed_fuel_decay
InPlot3D == prog = "plot_3d" \/ (prog = "main" /\ chart > 0)

\* Normalize.__call__ of matplotlib: a range that is a single point maps every
\* cell to 0, a reversed range is refused, any other is rescaled linearly.
NormalizeCall(a, vmin, vmax) ==
    IF FEq(vmin, vmax) THEN [i \in DOMAIN a |-> [j \in DOMAIN a[i] |-> F(0)]]
    ELSE Rescale(a, vmin, vmax)

\* line 232: plot_3d_speed_fuel_decay(df) called on its own with a table
GP_Call ==
    /\ prog = "plot_3d"
    /\ pc = "call"
    /\ \E in \in GridInputs :
        /\ df' = Frame(in)
        /\ columns' = in.cols
    /\ pc' = "figure"
    /\ UNCHANGED <<lineplot, prog, exc, grids, figures, saved, chart, ip, folder>>

\* lines 238-239: fig = plt.figure(...); ax = fig.add_subplot(...)
GP_Figure ==
    /\ InPlot3D
    /\ pc = "figure"
    /\ figures' = figures + 1
    /\ pc' = "filter"
    /\ UNCHANGED <<lineplot, prog, exc, columns, df, grids, saved, chart, ip, folder>>

\* line 242: df_speed = df[df['Ship_Speed'] == 15]
GP_Filter ==
    /\ InPlot3D
    /\ pc = "filter"
    /\ \/ /\ "Ship_Speed" \notin columns
          /\ Raise("KeyError")
          /\ UNCHANGED df_speed
       \/ /\ "Ship_Speed" \in columns
          /\ df_speed' = BoolIndex(df)
          /\ pc' = "fuel_pivot"
          /\ UNCHANGED exc
    /\ UNCHANGED <<lineplot, prog, columns, df, pivot, fuel_pivot, temp_pivot, X_vals, Y_vals, Z,
                   min_temp, max_temp, Temp_norm, figures, saved, chart, ip, folder>>

\* lines 245-250: fuel_pivot = df_speed.pivot_table(values='Fuel_Flow', ...)
GP_FuelPivot ==
    /\ InPlot3D
    /\ pc = "fuel_pivot"
    /\ \/ /\ ~({"Fuel_Flow", "Compressor_Decay", "Turbine_Decay"} \subseteq columns)
          /\ Raise("KeyError")
          /\ UNCHANGED fuel_pivot
       \/ /\ {"Fuel_Flow", "Compressor_Decay", "Turbine_Decay"} \subseteq columns
          /\ fuel_pivot' = pivot_table(df_speed, "Fuel_Flow")
          /\ pc' = "temp_pivot"
          /\ UNCHANGED exc
    /\ UNCHANGED <<lineplot, prog, columns, df, df_speed, pivot, temp_pivot, X_vals, Y_vals, Z,
                   min_temp, max_temp, Temp_norm, figures, saved, chart, ip, folder>>

\* Mutant: a table without T48 yields an empty colour table, not an error.
GP_TempPivot_AbsentIsEmpty ==
    /\ InPlot3D
    /\ pc = "temp_pivot"
    /\ temp_pivot' = IF "T48" \in columns THEN pivot_table(df_speed, "T48") ELSE Unset
    /\ pc' = "meshgrid"
    /\ UNCHANGED <<lineplot, prog, exc, columns, df, df_speed, pivot, fuel_pivot, X_vals, Y_vals, Z,
                   min_temp, max_temp, Temp_norm, figures, saved, chart, ip, folder>>

\* lines 251-256: temp_pivot = df_speed.pivot_table(values='T48', ...)
GP_TempPivot ==
    /\ InPlot3D
    /\ pc = "temp_pivot"
    /\ \/ /\ "T48" \notin columns
          /\ Raise("KeyError")
          /\ UNCHANGED temp_pivot
       \/ /\ "T48" \in columns
          /\ temp_pivot' = pivot_table(df_speed, "T48")
          /\ pc' = "meshgrid"
          /\ UNCHANGED exc
    /\ UNCHANGED <<lineplot, prog, columns, df, df_speed, pivot, fuel_pivot, X_vals, Y_vals, Z,
                   min_temp, max_temp, Temp_norm, figures, saved, chart, ip, folder>>

\* lines 259-262: X, Y from fuel_pivot, meshgrid, Z = fuel_pivot.values
GP_Meshgrid ==
    /\ InPlot3D
    /\ pc = "meshgrid"
    /\ X_vals' = fuel_pivot.columns
    /\ Y_vals' = fuel_pivot.index
    /\ Z' = fuel_pivot.values
    /\ pc' = "Normalize"
    /\ UNCHANGED <<lineplot, prog, exc, columns, df, df_speed, pivot, fuel_pivot, temp_pivot,
                   min_temp, max_temp, Temp_norm, figures, saved, chart, ip, folder>>

\* line 265: norm = Normalize(vmin=temp_pivot.values.min(), vmax=temp_pivot.values.max())
GP_Normalize ==
    /\ InPlot3D
    /\ pc = "Normalize"
    /\ \/ /\ Size(temp_pivot.values) = 0
          /\ Raise("ValueError")
          /\ UNCHANGED <<min_temp, max_temp>>
       \/ /\ Size(temp_pivot.values) > 0
          /\ min_temp' = ArrayMin(temp_pivot.values)
          /\ max_temp' = ArrayMax(temp_pivot.values)
          /\ pc' = "colors"
          /\ UNCHANGED exc
    /\ UNCHANGED <<lineplot, prog, columns, df, df_speed, pivot, fuel_pivot, temp_pivot, X_vals, Y_vals,
                   Z, Temp_norm, figures, saved, chart, ip, folder>>

\* line 266: colors = cm.hot_r(norm(temp_pivot.values))
GP_Colors ==
    /\ InPlot3D
    /\ pc = "colors"
    /\ \/ /\ FLess(max_temp, min_temp)
          /\ Raise("ValueError")
          /\ UNCHANGED Temp_norm
       \/ /\ ~FLess(max_temp, min_temp)
          /\ Temp_norm' = NormalizeCall(temp_pivot.values, min_temp, max_temp)
          /\ pc' = "plot_surface"
          /\ UNCHANGED exc
    /\ UNCHANGED <<lineplot, prog, columns, df, df_speed, pivot, fuel_pivot, temp_pivot, X_vals, Y_vals,
                   Z, min_temp, max_temp, figures, saved, chart, ip, folder>>

\* line 269: surf = ax.plot_surface(X, Y, Z, facecolors=colors, ...)
GP_PlotSurface ==
    /\ InPlot3D
    /\ pc = "plot_surface"
    /\ \E o \in SurfaceOutcomes(Z, TRUE, Temp_norm) :
        \/ /\ o # "drawn"
           /\ Raise(o)
        \/ /\ o = "drawn"
           /\ pc' = "savefig"
           /\ UNCHANGED exc
    /\ UNCHANGED <<lineplot, prog, columns, df, grids, figures, saved, chart, ip, folder>>

\* lines 271-285: labels, colorbar, savefig, plt.close(), return
GP_Savefig ==
    /\ InPlot3D
    /\ pc = "savefig"
    /\ saved' = Append(saved, "3d_speed_fuel_decay.png")
    /\ figures' = figures - 1
    /\ pc' = IF prog = "main" THEN "chart_return" ELSE "returned"
    /\ UNCHANGED <<lineplot, prog, exc, columns, df, grids, chart, ip, folder>>

\* ------------------------------------------------- the chart functions
\* The statements of a chart function that the driver's outcome depends on:
\*   figure   plt.figure / plt.subplots opens a figure
\*   use      the statement reads the named columns and raises err when one
\*            of them is absent (df[...] a KeyError, seaborn a ValueError)
\*   first    the statement takes the first element of the values of a column
\*            and raises an IndexError when the table has no row
\*   savefig  the file is written
\*   close    plt.close()
OpenFigure == [op |-> "figure", cols |-> {}, err |-> "none", file |-> "none"]
Use(c, e) == [op |-> "use", cols |-> c, err |-> e, file |-> "none"]
First(c) == [op |-> "first", cols |-> c, err |-> "IndexError", file |-> "none"]
Savefig(f) == [op |-> "savefig", cols |-> {}, err |-> "none", file |-> f]
\* Mutant: a statement that leaves the figure open.
CloseFigure_Forgotten == [op |-> "use", cols |-> {}, err |-> "none", file |-> "none"]

CloseFigure == [op |-> "close", cols |-> {}, err |-> "none", file |-> "none"]

plot_correlation_heatmap ==
    << OpenFigure, Savefig("correlation_heatmap.png"), CloseFigure >>

plot_speed_vs_fuel_decay ==
    << OpenFigure,
       Use({"Ship_Speed", "Fuel_Flow", "Compressor_Decay"}, "ValueError"),
       Savefig("speed_vs_fuel_decay.png"), CloseFigure >>

plot_speed_vs_fuel_lines ==
    << OpenFigure,
       Use({"Compressor_Decay"}, "KeyError"),
       Use({"Compressor_Decay", "Ship_Speed", "Fuel_Flow"}, "KeyError"),
       Savefig("speed_vs_fuel_lines.png"), CloseFigure >>

plot_speed_vs_fuel_decay_filtered ==
    << OpenFigure,
       Use({"Ship_Speed"}, "KeyError"),
       Use({"Ship_Speed", "Fuel_Flow", "Compressor_Decay"}, "ValueError"),
       Savefig("speed_vs_fuel_decay_filtered.png"), CloseFigure >>

plot_speed_vs_fuel_lines_filtered ==
    << OpenFigure,
       Use({"Compressor_Decay", "Ship_Speed"}, "KeyError"),
       Use({"Compressor_Decay", "Ship_Speed", "Fuel_Flow"}, "KeyError"),
       Savefig("speed_vs_fuel_lines_filtered.png"), CloseFigure >>

plot_sensor_boxplots ==
    << OpenFigure,
       Use({"T48", "T2", "P48", "P2", "Fuel_Flow"}, "KeyError"),
       Savefig("sensor_boxplots.png"), CloseFigure >>

plot_data_summary ==
    << OpenFigure,
       Use({"Ship_Speed"}, "KeyError"),
       Savefig("data_summary.png"), CloseFigure >>

plot_decay_vs_p2 ==
    << Use({"Ship_Speed"}, "KeyError"),
       OpenFigure,
       Use({"Compressor_Decay", "P2"}, "ValueError"),
       Savefig("decay_vs_p2_explanation.png"), CloseFigure >>

plot_decay_vs_t48 ==
    << Use({"Ship_Speed"}, "KeyError"),
       OpenFigure,
       Use({"Turbine_Decay", "T48"}, "ValueError"),
       Savefig("decay_vs_t48_explanation.png"), CloseFigure >>

plot_decay_distributions ==
    << OpenFigure,
       Use({"Compressor_Decay"}, "KeyError"),
       Use({"Turbine_Decay"}, "KeyError"),
       Savefig("decay_distributions.png"), CloseFigure >>

plot_operating_lines ==
    << OpenFigure,
       Use({"Compressor_Decay"}, "KeyError"),
       Use({"Compressor_Decay", "Ship_Speed", "Fuel_Flow"}, "KeyError"),
       Savefig("operating_lines.png"), CloseFigure >>

\* DT-LLM-Vessel/Presentation/generate_plots.py picks the decay states to
\* draw from the data: available_decays[0] needs a row.
plot_operating_lines_old ==
    << OpenFigure,
       Use({"Compressor_Decay"}, "KeyError"),
       First({"Compressor_Decay"}),
       Use({"Ship_Speed", "Fuel_Flow", "Compressor_Decay"}, "ValueError"),
       Savefig("operating_lines.png"), CloseFigure >>

\* plot_3d_speed_fuel_decay is run statement by statement by the GP_ actions.
Plot3D == <<>>

\* A list of calls in which plot_data_summary stands twice and
\* plot_correlation_heatmap is missing.
Charts_DataSummaryTwice ==
    << plot_data_summary, plot_data_summary, plot_speed_vs_fuel_decay,
       plot_speed_vs_fuel_lines, plot_speed_vs_fuel_decay_filtered,
       plot_speed_vs_fuel_lines_filtered, plot_sensor_boxplots, plot_decay_vs_p2,
       plot_decay_vs_t48, plot_decay_distributions, plot_operating_lines, Plot3D >>

\* main() of Presentation/generate_plots.py: the chart functions in call order.
Charts ==
    << plot_data_summary, plot_correlation_heatmap, plot_speed_vs_fuel_decay,
       plot_speed_vs_fuel_lines, plot_speed_vs_fuel_decay_filtered,
       plot_speed_vs_fuel_lines_filtered, plot_sensor_boxplots, plot_decay_vs_p2,
       plot_decay_vs_t48, plot_decay_distributions, plot_operating_lines, Plot3D >>

\* main() of DT-LLM-Vessel/Presentation/generate_plots.py
ChartsOld ==
    << plot_data_summary, plot_correlation_heatmap, plot_speed_vs_fuel_decay,
       plot_sensor_boxplots, plot_decay_vs_p2, plot_decay_vs_t48,
       plot_decay_distributions, plot_operating_lines_old >>

ChartsOf(p) == IF p = "main" THEN Charts ELSE ChartsOld

\* ------------------------------------------------------------------ main()
\* The files main() may find: a table without rows, a table without a row at
\* the plotted speed, and the scenario table, each with any set of columns.
MainDatasets == {<<>>, <<Row(9, 950, 975, F(10), F(5))>>, ScenarioRows}

MainInputs == {[rows |-> d, cols |-> c] : d \in MainDatasets, c \in SUBSET AllColumns}

\* setup_output_folder()
Main_Setup ==
    /\ prog \in {"main", "main_old"}
    /\ pc = "setup_output_folder"
    /\ folder' = TRUE
    /\ pc' = "load_data"
    /\ UNCHANGED <<lineplot, prog, exc, columns, df, grids, figures, saved, chart, ip>>

\* df = load_data()
Main_Load ==
    /\ prog \in {"main", "main_old"}
    /\ pc = "load_data"
    /\ \E in \in MainInputs :
        /\ df' = Frame(in)
        /\ columns' = in.cols
    /\ chart' = 1
    /\ pc' = "call_chart"
    /\ UNCHANGED <<lineplot, prog, exc, grids, figures, saved, ip, folder>>

\* The next line of the list of plot_* calls: the function is entered.
Main_CallChart ==
    /\ prog \in {"main", "main_old"}
    /\ pc = "call_chart"
    /\ chart <= Len(ChartsOf(prog))
    /\ IF ChartsOf(prog)[chart] = Plot3D
       THEN pc' = "figure" /\ ip' = 0
       ELSE pc' = "stmt" /\ ip' = 1
    /\ UNCHANGED <<lineplot, prog, exc, columns, df, grids, figures, saved, chart, folder>>

\* One statement of the chart function being run.
Chart_Stmt ==
    /\ prog \in {"main", "main_old"}
    /\ pc = "stmt"
    /\ LET body == ChartsOf(prog)[chart]
           st == body[ip]
           goOn == /\ ip' = ip + 1
                   /\ pc' = IF ip = Len(body) THEN "chart_return" ELSE "stmt"
                   /\ UNCHANGED exc
       IN  \/ /\ st.op = "figure"
              /\ figures' = figures + 1
              /\ goOn
              /\ UNCHANGED saved
           \/ /\ st.op = "use"
              /\ st.cols \subseteq columns
              /\ goOn
              /\ UNCHANGED <<figures, saved>>
           \/ /\ st.op = "use"
              /\ ~(st.cols \subseteq columns)
              /\ Raise(st.err)
              /\ UNCHANGED <<figures, saved, ip>>
           \/ /\ st.op = "first"
              /\ Len(df) > 0
              /\ goOn
              /\ UNCHANGED <<figures, saved>>
           \/ /\ st.op = "first"
              /\ Len(df) = 0
              /\ Raise(st.err)
              /\ UNCHANGED <<figures, saved, ip>>
           \/ /\ st.op = "savefig"
              /\ saved' = Append(saved, st.file)
              /\ goOn
              /\ UNCHANGED figures
           \/ /\ st.op = "close"
              /\ figures' = figures - 1
              /\ goOn
              /\ UNCHANGED saved
    /\ UNCHANGED <<lineplot, prog, columns, df, grids, chart, folder>>

\* The chart function returned: main() goes on to the next call.
Main_Return ==
    /\ prog \in {"main", "main_old"}
    /\ pc = "chart_return"
    /\ chart' = chart + 1
    /\ ip' = 0
    /\ pc' = "call_chart"
    /\ UNCHANGED <<lineplot, prog, exc, columns, df, grids, figures, saved, folder>>

\* After the last call: "All plots saved to ..." is printed and main() returns.
Main_End ==
    /\ prog \in {"main", "main_old"}
    /\ pc = "call_chart"
    /\ chart > Len(ChartsOf(prog))
    /\ pc' = "done"
    /\ UNCHANGED <<lineplot, prog, exc, columns, df, grids, figures, saved, chart, ip, folder>>

\* ------------------------------------------------------- the line charts
\* plot_speed_vs_fuel_lines and plot_speed_vs_fuel_lines_filtered, statement
\* by statement, each called on its own with a table.  main() runs them
\* through the statements listed above, which keep of them what main() can
\* observe: the figure, the columns named, the file.
LineCharts == {"lines", "lines_filtered"}

\* selected_decays = [0.95, 0.96, 0.97, 0.98, 0.99, 1.0], in thousandths
selected_decays == <<950, 960, 970, 980, 990, 1000>>

\* df['Ship_Speed'] >= 9
min_speed == 9

LineSpeeds == {6, min_speed, speed_val}
LineDecays == {950, 975, 1000}

\* The rows of the tables given to the line charts.  A row that both charts
\* drop (its compressor decay is not selected) contributes nothing, so its
\* turbine decay and its Fuel_Flow are fixed.
LineRowDomain ==
    {r \in [Ship_Speed : LineSpeeds, Compressor_Decay : LineDecays,
            Turbine_Decay : TurbineDecays, Fuel_Flow : FuelValues, T48 : {F(5)}] :
        r.Compressor_Decay = 975 => (r.Turbine_Decay = 1000 /\ r.Fuel_Flow = F(10))}

\* A longer table, slower rows last: the pair (0.95, 15) has rows at both
\* turbine decays, the pair (0.95, 9) a missing value, the pair (1.0, 9) no
\* value; one row is below 9 knots and one has a decay that is not selected.
LineRows ==
    << Row(speed_val, 950, 975, F(10), F(5)),
       Row(speed_val, 950, 1000, F(12), F(5)),
       Row(speed_val, 975, 1000, F(10), F(5)),
       Row(min_speed, 950, 975, NaN, F(5)),
       Row(min_speed, 950, 1000, F(10), F(5)),
       Row(min_speed, 1000, 1000, NaN, F(5)),
       Row(6, 950, 975, F(12), F(5)) >>

LineInputs ==
    {[rows |-> d, cols |-> AllColumns] :
        d \in (UNION {[1..n -> LineRowDomain] : n \in 0..MaxRows}) \cup {LineRows}}
        \cup {[rows |-> LineRows, cols |-> AllColumns \ {c}] : c \in Fields}

\* Mutant: the filtered chart keeps the rows above 9 knots only.
SelectedMask_Above(p, r) ==
    /\ \E i \in DOMAIN selected_decays : r.Compressor_Decay = selected_decays[i]
    /\ p = "lines_filtered" => r.Ship_Speed > min_speed

\* df['Compressor_Decay'].isin(selected_decays), and in the filtered chart
\* & (df['Ship_Speed'] >= 9)
SelectedMask(p, r) ==
    /\ \E i \in DOMAIN selected_decays : r.Compressor_Decay = selected_decays[i]
    /\ p = "lines_filtered" => r.Ship_Speed >= min_speed

\* df[mask]: the rows the mask keeps, in order.
RECURSIVE Selected(_, _)
Selected(p, rows) ==
    IF rows = <<>> THEN <<>>
    ELSE IF SelectedMask(p, Head(rows)) THEN <<Head(rows)>> \o Selected(p, Tail(rows))
    ELSE Selected(p, Tail(rows))

\* groupby(['Compressor_Decay', 'Ship_Speed'])['Fuel_Flow']: one pass over the
\* rows, one accumulator per (decay, speed) pair met.
RECURSIVE LineGroupBy(_, _)
LineGroupBy(rows, acc) ==
    IF rows = <<>> THEN acc
    ELSE LET r == Head(rows)
             k == <<r.Compressor_Decay, r.Ship_Speed>>
             old == IF k \in DOMAIN acc THEN acc[k] ELSE [sum |-> F(0), count |-> 0]
             new == Accumulate(old, r.Fuel_Flow)
         IN  LineGroupBy(Tail(rows),
                         [x \in (DOMAIN acc) \cup {k} |-> IF x = k THEN new ELSE acc[x]])

\* The group keys in the order of the result (groupby sort=True): by decay,
\* then by speed.
RECURSIVE SortPairs(_)
SortPairs(S) ==
    IF S = {} THEN <<>>
    ELSE LET m == CHOOSE x \in S :
                    \A y \in S : x[1] < y[1] \/ (x[1] = y[1] /\ x[2] <= y[2])
         IN  <<m>> \o SortPairs(S \ {m})

\* .mean().reset_index(): one row per group, the mean of a group without a
\* value being NaN; no group is dropped.
GroupMeans(rows) ==
    LET g == LineGroupBy(rows, NoGroups)
        keys == SortPairs(DOMAIN g)
    IN  [n \in 1..Len(keys) |->
            [Compressor_Decay |-> keys[n][1], Ship_Speed |-> keys[n][2],
             Fuel_Flow |-> GroupMean(g[keys[n]])]]

\* df_avg[df_avg['Compressor_Decay'] == decay]
RECURSIVE Subset(_, _)
Subset(avg, decay) ==
    IF avg = <<>> THEN <<>>
    ELSE IF Head(avg).Compressor_Decay = decay THEN <<Head(avg)>> \o Subset(Tail(avg), decay)
    ELSE Subset(Tail(avg), decay)

\* .sort_values('Ship_Speed'): the rows by ascending speed.
RECURSIVE InsertBySpeed(_, _)
InsertBySpeed(r, sorted) ==
    IF sorted = <<>> THEN <<r>>
    ELSE IF r.Ship_Speed < Head(sorted).Ship_Speed THEN <<r>> \o sorted
    ELSE <<Head(sorted)>> \o InsertBySpeed(r, Tail(sorted))

RECURSIVE sort_values(_)
sort_values(rows) ==
    IF rows = <<>> THEN <<>>
    ELSE InsertBySpeed(Head(rows), sort_values(Tail(rows)))

\* The file the chart writes.
LineFile == IF prog = "lines" THEN "speed_vs_fuel_lines.png"
            ELSE "speed_vs_fuel_lines_filtered.png"

\* The chart function is called with a table.
Lines_Call ==
    /\ prog \in LineCharts
    /\ pc = "call"
    /\ \E in \in LineInputs :
        /\ df' = Frame(in)
        /\ columns' = in.cols
    /\ pc' = "figure"
    /\ UNCHANGED <<lineplot, prog, exc, grids, figures, saved, chart, ip, folder>>

\* lines 54 / 94: plt.figure(figsize=(10, 6))
Lines_Figure ==
    /\ prog \in LineCharts
    /\ pc = "figure"
    /\ figures' = figures + 1
    /\ pc' = "select"
    /\ UNCHANGED <<lineplot, prog, exc, columns, df, grids, saved, chart, ip, folder>>

\* lines 57-58 / 97-99: selected_decays = [...]; df_selected = df[...]
Lines_Select ==
    /\ prog \in LineCharts
    /\ pc = "select"
    /\ LET named == IF prog = "lines" THEN {"Compressor_Decay"}
                    ELSE {"Compressor_Decay", "Ship_Speed"}
       IN  \/ /\ ~(named \subseteq columns)
              /\ Raise("KeyError")
              /\ UNCHANGED df_selected
           \/ /\ named \subseteq columns
              /\ df_selected' = Selected(prog, df)
              /\ pc' = "groupby"
              /\ UNCHANGED exc
    /\ UNCHANGED <<prog, columns, df, grids, figures, saved, chart, ip, folder, df_avg, lines>>

\* lines 61 / 102: df_avg = df_selected.groupby([...])['Fuel_Flow'].mean().reset_index()
Lines_GroupBy ==
    /\ prog \in LineCharts
    /\ pc = "groupby"
    /\ \/ /\ ~({"Compressor_Decay", "Ship_Speed", "Fuel_Flow"} \subseteq columns)
          /\ Raise("KeyError")
          /\ UNCHANGED df_avg
       \/ /\ {"Compressor_Decay", "Ship_Speed", "Fuel_Flow"} \subseteq columns
          /\ df_avg' = GroupMeans(df_selected)
          /\ pc' = "plot"
          /\ UNCHANGED exc
    /\ UNCHANGED <<prog, columns, df, grids, figures, saved, chart, ip, folder,
                   df_selected, lines>>

\* lines 64-67 / 105-108: one pass of  for decay in selected_decays:  the
\* subset of the decay, sorted by speed, is handed to plt.plot.
Lines_Plot ==
    /\ prog \in LineCharts
    /\ pc = "plot"
    /\ LET decay == selected_decays[Len(lines) + 1]
           subset == sort_values(Subset(df_avg, decay))
       IN  lines' = Append(lines,
                           [label |-> decay,
                            x |-> [i \in 1..Len(subset) |-> subset[i].Ship_Speed],
                            y |-> [i \in 1..Len(subset) |-> subset[i].Fuel_Flow]])
    /\ pc' = IF Len(lines) + 1 = Len(selected_decays) THEN "savefig" ELSE "plot"
    /\ UNCHANGED <<prog, exc, columns, df, grids, figures, saved, chart, ip, folder,
                   df_selected, df_avg>>

\* lines 69-74 / 110-115: title, labels, legend, plt.savefig(...)
Lines_Savefig ==
    /\ prog \in LineCharts
    /\ pc = "savefig"
    /\ saved' = Append(saved, LineFile)
    /\ pc' = "close"
    /\ UNCHANGED <<lineplot, prog, exc, columns, df, grids, figures, chart, ip, folder>>

\* lines 75 / 116: plt.close()
Lines_Close ==
    /\ prog \in LineCharts
    /\ pc = "close"
    /\ figures' = figures - 1
    /\ pc' = "returned"
    /\ UNCHANGED <<lineplot, prog, exc, columns, df, grids, saved, chart, ip, folder>>

\* The function has no try: the exception leaves it.
Lines_Uncaught ==
    /\ prog \in LineCharts
    /\ pc = "raised"
    /\ pc' = "crashed"
    /\ UNCHANGED <<lineplot, prog, exc, columns, df, grids, figures, saved, chart, ip, folder>>

\* ------------------------------------------------------------ exceptions
\* 3dview.py is a flat script and plot_3d_speed_fuel_decay has no try: an
\* exception in flight leaves the program, the traceback is printed and the
\* run is over.
Script_Uncaught ==
    /\ prog \in {"3dview", "plot_3d"}
    /\ pc = "raised"
    /\ pc' = "crashed"
    /\ UNCHANGED <<lineplot, prog, exc, columns, df, grids, figures, saved, chart, ip, folder>>

\* What main() does with an exception that comes out of a plot_* call: the
\* calls are not wrapped in try/except, so it leaves main() as well.
MainHandler == "crashed"

Main_Uncaught ==
    /\ prog \in {"main", "main_old"}
    /\ pc = "raised"
    /\ pc' = MainHandler
    /\ UNCHANGED <<lineplot, prog, exc, columns, df, grids, figures, saved, chart, ip, folder>>

\* ------------------------------------------------------------ specification
Init == Start("3dview", "read_csv") \/ Start("plot_3d", "call")

Next ==
    \/ View_ReadCsv
    \/ View_Filter
    \/ View_Pivot
    \/ View_Meshgrid
    \/ View_Surface1
    \/ View_PivotZ
    \/ View_PivotTemp
    \/ View_MinMax
    \/ View_Norm
    \/ View_Surface2
    \/ View_Show
    \/ GP_Call
    \/ GP_Figure
    \/ GP_Filter
    \/ GP_FuelPivot
    \/ GP_TempPivot
    \/ GP_Meshgrid
    \/ GP_Normalize
    \/ GP_Colors
    \/ GP_PlotSurface
    \/ GP_Savefig
    \/ Script_Uncaught

Spec == Init /\ [][Next]_vars

InitMain == Start("main", "setup_output_folder") \/ Start("main_old", "setup_output_folder")

NextMain ==
    \/ Main_Setup
    \/ Main_Load
    \/ Main_CallChart
    \/ Chart_Stmt
    \/ Main_Return
    \/ Main_End
    \/ Main_Uncaught
    \/ GP_Figure
    \/ GP_Filter
    \/ GP_FuelPivot
    \/ GP_TempPivot
    \/ GP_Meshgrid
    \/ GP_Normalize
    \/ GP_Colors
    \/ GP_PlotSurface
    \/ GP_Savefig

SpecMain == InitMain /\ [][NextMain]_vars

InitLines == Start("lines", "call") \/ Start("lines_filtered", "call")

NextLines ==
    \/ Lines_Call
    \/ Lines_Figure
    \/ Lines_Select
    \/ Lines_GroupBy
    \/ Lines_Plot
    \/ Lines_Savefig
    \/ Lines_Close
    \/ Lines_Uncaught

SpecLines == InitLines /\ [][NextLines]_vars

\* ================================================================== claims
\* Where a run stands, by program.
FuelBuilt ==
    \/ prog = "3dview" /\ pc \in {"pivot_temp", "minmax", "norm", "surface2", "show", "done"}
    \/ prog = "plot_3d" /\ pc \in {"temp_pivot", "meshgrid", "Normalize", "colors",
                                   "plot_surface", "savefig", "returned"}

TempBuilt ==
    \/ prog = "3dview" /\ pc \in {"minmax", "norm", "surface2", "show", "done"}
    \/ prog = "plot_3d" /\ pc \in {"meshgrid", "Normalize", "colors", "plot_surface",
                                   "savefig", "returned"}

FirstBuilt ==
    prog = "3dview" /\ pc \in {"meshgrid", "surface1", "pivot_z", "pivot_temp", "minmax",
                               "norm", "surface2", "show", "done"}

MinMaxDone ==
    \/ prog = "3dview" /\ pc \in {"norm", "surface2", "show", "done"}
    \/ prog = "plot_3d" /\ pc \in {"colors", "plot_surface", "savefig", "returned"}

NormDone ==
    \/ prog = "3dview" /\ pc \in {"surface2", "show", "done"}
    \/ prog = "plot_3d" /\ pc \in {"plot_surface", "savefig", "returned"}

\* The grids of the state, each with the measurement it aggregates and
\* whether it has been built.
Grids ==
    { [grid |-> pivot, field |-> "Fuel_Flow", built |-> FirstBuilt],
      [grid |-> fuel_pivot, field |-> "Fuel_Flow", built |-> FuelBuilt],
      [grid |-> temp_pivot, field |-> "T48", built |-> TempBuilt] }

\* Brute force over the table as read: the rows at the plotted speed with the
\* decay pair (r, c), and those of them whose measurement is not missing.
RowsOf(r, c) ==
    {n \in 1..Len(df) : /\ df[n].Ship_Speed = speed_val
                        /\ df[n].Compressor_Decay = r
                        /\ df[n].Turbine_Decay = c}

ValuedRowsOf(field, r, c) == {n \in RowsOf(r, c) : ~IsNaN(df[n][field])}

RECURSIVE SumOf(_, _)
SumOf(field, S) ==
    IF S = {} THEN F(0)
    ELSE LET n == CHOOSE n \in S : TRUE
         IN  FAdd(df[n][field], SumOf(field, S \ {n}))

BruteMean(field, r, c) ==
    LET S == ValuedRowsOf(field, r, c)
    IN  Ratio(SumOf(field, S)[1], SumOf(field, S)[2] * Cardinality(S))

Range(q) == {q[i] : i \in DOMAIN q}

StrictlyAscending(q) == \A i \in 1..(Len(q) - 1) : q[i] < q[i + 1]

\* C1: every defined cell (r,c) of a grid pivoted over (Compressor_Decay,
\* Turbine_Decay) equals the mean of the measurement values of exactly the
\* rows at the plotted speed whose decay pair is (r,c), recomputed by brute
\* force from the table.
C1_CellIsBruteForceMean ==
    \A g \in Grids :
        \A i \in 1..Len(g.grid.index) : \A j \in 1..Len(g.grid.columns) :
            ~IsNaN(g.grid.values[i][j]) =>
                /\ ValuedRowsOf(g.field, g.grid.index[i], g.grid.columns[j]) # {}
                /\ g.grid.values[i][j] = BruteMean(g.field, g.grid.index[i], g.grid.columns[j])

\* A cell averages a missing value, two different values and skips a row of
\* the same decay pair at another speed.
C1_Witness ==
    /\ FuelBuilt
    /\ \E i \in 1..Len(fuel_pivot.index) : \E j \in 1..Len(fuel_pivot.columns) :
        /\ fuel_pivot.values[i][j] = F(11)
        /\ \E n \in 1..Len(df) :
            /\ df[n].Compressor_Decay = fuel_pivot.index[i]
            /\ df[n].Turbine_Decay = fuel_pivot.columns[j]
            /\ df[n].Ship_Speed # speed_val

\* C4: the row keys and the column keys of a grid, and the arrays handed to
\* meshgrid, are strictly ascending without duplicates, whatever the order of
\* the rows of the table.
C4_KeysStrictlyAscending ==
    /\ \A g \in Grids : StrictlyAscending(g.grid.index) /\ StrictlyAscending(g.grid.columns)
    /\ StrictlyAscending(X_vals)
    /\ StrictlyAscending(Y_vals)

\* The table lists the larger decays first, and both key arrays have two keys.
C4_Witness ==
    /\ Len(X_vals) = 2
    /\ Len(Y_vals) = 2
    /\ Len(df_speed) >= 2
    /\ df_speed[1].Compressor_Decay > df_speed[2].Compressor_Decay
    /\ df_speed[1].Turbine_Decay > df_speed[2].Turbine_Decay

\* C5: a cell whose row key and column key both exist but whose decay pair no
\* row at the plotted speed has is NaN: not zero, not a value of another cell.
C5_HoleIsUndefined ==
    \A g \in Grids :
        \A i \in 1..Len(g.grid.index) : \A j \in 1..Len(g.grid.columns) :
            RowsOf(g.grid.index[i], g.grid.columns[j]) = {} => IsNaN(g.grid.values[i][j])

\* The scenario: keys [0.95, 1.0] x [0.975, 1.0], cell(0.95,0.975)=30,
\* cell(0.95,1.0)=20, cell(1.0,1.0)=11 and cell(1.0,0.975) a hole.
C5_Witness ==
    /\ FuelBuilt
    /\ df = ScenarioRows
    /\ fuel_pivot.index = <<950, 1000>>
    /\ fuel_pivot.columns = <<975, 1000>>
    /\ fuel_pivot.values = << <<F(30), F(20)>>, <<NaN, F(11)>> >>

\* The decay values of the rows at the plotted speed.
FilteredRows == {n \in 1..Len(df) : df[n].Ship_Speed = speed_val}

\* C2: the height grid (Fuel_Flow) and the colour grid (T48) built from the
\* same filtered rows have the same row keys and the same column keys, also
\* when the two measurements are missing on different rows.
C2_PairedGridsShareKeys ==
    TempBuilt =>
        /\ fuel_pivot.index = temp_pivot.index
        /\ fuel_pivot.columns = temp_pivot.columns

\* C3: the row keys of a built grid are exactly the distinct Compressor_Decay
\* values of the rows at the plotted speed and its column keys exactly their
\* distinct Turbine_Decay values, whether or not the measurement of such a row
\* is missing.
C3_KeysAreFilteredDecays ==
    \A g \in Grids :
        g.built =>
            /\ Range(g.grid.index) = {df[n].Compressor_Decay : n \in FilteredRows}
            /\ Range(g.grid.columns) = {df[n].Turbine_Decay : n \in FilteredRows}

\* C6: when no row is at the plotted speed, building the grid ends in an
\* EmptyResultError; no grid, empty or not, goes on to meshgrid, to the
\* normalization or to the renderer.
C6_EmptyFilterIsAnError ==
    ((FirstBuilt \/ FuelBuilt) /\ FilteredRows = {}) => exc = "EmptyResultError"

\* The defined cells of an array.
Defined(a) == {p \in Cells(a) : ~IsNaN(a[p[1]][p[2]])}

\* C7: after the colour grid is normalized with its own minimum and maximum,
\* every cell that was defined is a number within [0,1] and every hole is
\* still a hole, also for a grid with holes.
C7_NormalizedWithinUnitRange ==
    NormDone =>
        \A p \in Cells(temp_pivot.values) :
            LET in == temp_pivot.values[p[1]][p[2]]
                out == Temp_norm[p[1]][p[2]]
            IN  IF IsNaN(in) THEN IsNaN(out)
                ELSE /\ IsFinite(out)
                     /\ ~FLess(out, F(0))
                     /\ ~FLess(F(1), out)

\* C8: the minimum and the maximum used by the normalization are those of the
\* defined cells: a hole neither changes them nor makes them NaN.
C8_MinMaxIgnoreHoles ==
    (MinMaxDone /\ Defined(temp_pivot.values) # {}) =>
        /\ \E p \in Defined(temp_pivot.values) : min_temp = temp_pivot.values[p[1]][p[2]]
        /\ \E p \in Defined(temp_pivot.values) : max_temp = temp_pivot.values[p[1]][p[2]]
        /\ \A p \in Defined(temp_pivot.values) :
            /\ ~FLess(temp_pivot.values[p[1]][p[2]], min_temp)
            /\ ~FLess(max_temp, temp_pivot.values[p[1]][p[2]])

\* All defined cells of the array have one value.
Degenerate(a) ==
    /\ Defined(a) # {}
    /\ \A p, q \in Defined(a) : a[p[1]][p[2]] = a[q[1]][q[2]]

\* C9: normalizing a grid whose defined cells all have one value ends in a
\* DegenerateRangeError: the division is not performed and no normalized grid
\* is returned.
C9_DegenerateRangeIsAnError ==
    (NormDone /\ Degenerate(temp_pivot.values)) => exc = "DegenerateRangeError"

\* C10: in main(), an exception raised by one chart does not end the batch:
\* the run is over only after every chart of the list has been called and the
\* closing lines have been printed.
C10_BatchSurvivesChartFailure ==
    (prog \in {"main", "main_old"} /\ exc # "none") => pc # "crashed"

\* The image files of a complete run, in the order of the calls of main().
ExpectedFiles ==
    IF prog = "main"
    THEN << "data_summary.png", "correlation_heatmap.png", "speed_vs_fuel_decay.png",
            "speed_vs_fuel_lines.png", "speed_vs_fuel_decay_filtered.png",
            "speed_vs_fuel_lines_filtered.png", "sensor_boxplots.png",
            "decay_vs_p2_explanation.png", "decay_vs_t48_explanation.png",
            "decay_distributions.png", "operating_lines.png", "3d_speed_fuel_decay.png" >>
    ELSE << "data_summary.png", "correlation_heatmap.png", "speed_vs_fuel_decay.png",
            "sensor_boxplots.png", "decay_vs_p2_explanation.png",
            "decay_vs_t48_explanation.png", "decay_distributions.png",
            "operating_lines.png" >>

IsPrefix(s, t) == Len(s) <= Len(t) /\ \A i \in 1..Len(s) : s[i] = t[i]

\* main() has not yet returned from load_data().
BeforeLoad == pc \in {"setup_output_folder", "load_data"}

\* Where main() stands: no chart runs and no file exists before the folder is
\* there and the table is loaded; the files written are the first files of
\* the fixed list, the file of chart k being written while chart k runs; a
\* run that ends normally has written the whole list.
C11_Order ==
    /\ BeforeLoad => (chart = 0 /\ saved = <<>> /\ df = <<>>)
    /\ ~BeforeLoad => (folder /\ chart >= 1)
    /\ pc = "load_data" => folder
    /\ IsPrefix(saved, ExpectedFiles)
    /\ chart >= 1 => Len(saved) \in {chart - 1, chart}
    /\ pc = "call_chart" => Len(saved) = chart - 1
    /\ pc = "chart_return" => Len(saved) = chart
    /\ pc = "done" => saved = ExpectedFiles

\* One step of main(): the table is assigned by load_data() only, which is
\* entered from setup_output_folder() only, and the folder is not set up
\* again; a grid is assigned before the file of its chart is written, and
\* after a file is written the chart only closes its figure and returns.
C11_Step ==
    /\ (df' # df \/ columns' # columns) => pc = "load_data"
    /\ pc' = "load_data" => pc = "setup_output_folder"
    /\ pc' # "setup_output_folder"
    /\ chart' # chart => (pc \in {"load_data", "chart_return"} /\ chart' = chart + 1)
    /\ grids' # grids =>
           /\ pc \in {"filter", "fuel_pivot", "temp_pivot", "meshgrid", "Normalize", "colors"}
           /\ Len(saved) = chart - 1
    /\ pc = "plot_surface" => grids' = grids
    /\ saved' # saved =>
           /\ Len(saved') = Len(saved) + 1
           /\ \/ pc' = "chart_return"
              \/ /\ pc' = "stmt"
                 /\ \A k \in ip'..Len(ChartsOf(prog)[chart]) :
                        ChartsOf(prog)[chart][k].op = "close"

\* C11: main() first ensures the output folder and loads the table exactly
\* once, and only then runs the chart functions, each once and in the fixed
\* order; within a chart the grid is aggregated before it is rendered and the
\* file is saved last; no chart is aggregated or saved before the table is
\* loaded and no chart is produced twice.
C11_LoadThenEachChartOnce == []C11_Order /\ [][C11_Step]_vars

\* A complete run of main() over the scenario table: twelve files, the 3D
\* chart last.
C11_Witness ==
    /\ prog = "main"
    /\ pc = "done"
    /\ df = ScenarioRows
    /\ Len(saved) = 12
    /\ saved[12] = "3d_speed_fuel_decay.png"
    /\ fuel_pivot.index = <<950, 1000>>

\* In 3dview.py, between the first build (line 17) and the second (line 58),
\* and after it: the table and its filtered rows are what the first build
\* was given.
C12_Step ==
    (prog = "3dview" /\ pc \in {"pivot", "meshgrid", "surface1", "pivot_z"}) =>
        (df' = df /\ df_speed' = df_speed /\ columns' = columns)

Loaded == pc \notin {"read_csv", "call"}

\* The columns a grid request names: the filter, a Fuel_Flow grid, the T48 grid.
FilterFields == {"Ship_Speed"}
FuelFields == {"Compressor_Decay", "Turbine_Decay", "Fuel_Flow"}
TempFields == {"Compressor_Decay", "Turbine_Decay", "T48"}

\* A column that one of the grid requests names is absent from the table.
FieldAbsent == Loaded /\ ~((FilterFields \cup FuelFields \cup TempFields) \subseteq columns)

GroupsOf == {<<df[n].Compressor_Decay, df[n].Turbine_Decay>> : n \in FilteredRows}

\* The positions of the cell of the decay pair k in the table t (none when a
\* key of the pair is not a key of the table).
CellsOf(t, k) ==
    {p \in (1..Len(t.index)) \X (1..Len(t.columns)) :
        t.index[p[1]] = k[1] /\ t.columns[p[2]] = k[2]}

\* A pivot_table statement is about to run on a table that has every column.
AtBuild ==
    /\ pc \in {"pivot", "pivot_z", "pivot_temp", "fuel_pivot", "temp_pivot"}
    /\ Fields \subseteq columns

\* C14: within each (Compressor_Decay, Turbine_Decay) group of the rows at
\* the plotted speed, the cell is the sum of the non-missing measurement
\* values divided by their number; a group whose measurement values are all
\* missing has no defined cell (its cell is NaN, or the grid has no cell for
\* it), never zero; and building a grid from a table that has the columns
\* raises nothing, whatever is missing.
C14_MeanSkipsMissing ==
    /\ [](\A g \in Grids : g.built =>
            \A k \in GroupsOf :
                IF ValuedRowsOf(g.field, k[1], k[2]) # {}
                THEN /\ CellsOf(g.grid, k) # {}
                     /\ \A p \in CellsOf(g.grid, k) :
                            g.grid.values[p[1]][p[2]] = BruteMean(g.field, k[1], k[2])
                ELSE \A p \in CellsOf(g.grid, k) : IsNaN(g.grid.values[p[1]][p[2]]))
    /\ [][AtBuild => (exc' = "none" /\ pc' # "raised")]_vars

\* The Fuel_Flow grid of the table with missing measurements: the pair
\* (0.95, 0.975) averages 10 and 12 past a missing value, the pair (0.95, 1.0)
\* has a row and no value and its cell is NaN.
C14_Witness ==
    /\ FuelBuilt
    /\ df = MissingRows
    /\ exc = "none"
    /\ fuel_pivot.index = <<950, 1000>>
    /\ fuel_pivot.columns = <<975, 1000>>
    /\ fuel_pivot.values = << <<F(11), NaN>>, <<NaN, F(10)>> >>
    /\ ValuedRowsOf("Fuel_Flow", 950, 1000) = {}
    /\ RowsOf(950, 1000) # {}

\* The rows of the table with compressor decay d and speed v, over every
\* turbine decay, and those of them that have a Fuel_Flow.
LineRowsOf(d, v) ==
    {n \in 1..Len(df) : df[n].Compressor_Decay = d /\ df[n].Ship_Speed = v}

LineValuedRowsOf(d, v) == {n \in LineRowsOf(d, v) : ~IsNaN(df[n].Fuel_Flow)}

\* The mean Fuel_Flow of those rows, by brute force: NaN when none has a value.
LineBruteMean(d, v) ==
    LET S == LineValuedRowsOf(d, v)
    IN  IF S = {} THEN NaN
        ELSE Ratio(SumOf("Fuel_Flow", S)[1], SumOf("Fuel_Flow", S)[2] * Cardinality(S))

\* C15: in plot_speed_vs_fuel_lines_filtered every plotted point (d, v) has
\* d in the selected list (d being the decay of its line) and v >= 9 and
\* stands for at least one row of the table; the speeds of a line are
\* strictly ascending, so a pair (d, v) has at most one point; the line of d
\* has a point at every speed >= 9 of a row with decay d; and the value of
\* the point is the mean Fuel_Flow of all rows with that decay and speed,
\* over every Turbine_Decay value.
C15_LinePointsAreFilteredMeans ==
    prog = "lines_filtered" =>
        \A l \in 1..Len(lines) :
            LET d == lines[l].label
                x == lines[l].x
                y == lines[l].y
            IN  /\ d = selected_decays[l]
                /\ Len(x) = Len(y)
                /\ StrictlyAscending(x)
                /\ Range(x) = {df[n].Ship_Speed :
                                 n \in {m \in 1..Len(df) : /\ df[m].Compressor_Decay = d
                                                           /\ df[m].Ship_Speed >= 9}}
                /\ \A i \in 1..Len(x) :
                    /\ x[i] >= 9
                    /\ LineRowsOf(d, x[i]) # {}
                    /\ y[i] = LineBruteMean(d, x[i])

\* The chart of the longer table is drawn: the line of 0.95 has the points
\* (9, 10) and (15, 11), the second the mean over both turbine decays, the
\* rows being listed fastest first; the line of 1.0 has one point without a
\* value; the row below 9 knots and the decay 0.975 have no point.
C15_Witness ==
    /\ prog = "lines_filtered"
    /\ pc = "returned"
    /\ df = LineRows
    /\ Len(lines) = 6
    /\ lines[1] = [label |-> 950, x |-> <<9, 15>>, y |-> <<F(10), F(11)>>]
    /\ lines[6] = [label |-> 1000, x |-> <<9>>, y |-> <<NaN>>]
    /\ saved = <<"speed_vs_fuel_lines_filtered.png">>

\* main() stands between two chart calls, before the first or after the last.
BetweenCharts ==
    pc \in {"setup_output_folder", "load_data", "call_chart", "chart_return", "done"}

\* The statement about to run writes the file of the chart.
AtSavefig ==
    \/ pc = "savefig"
    \/ pc = "stmt" /\ ChartsOf(prog)[chart][ip].op = "savefig"

\* C16: in both drivers every plot_* function opens one figure and closes it
\* before it returns: no figure is open in any state between two chart calls
\* of main(), at most one figure is ever open, the figure open when a chart
\* writes its file is the one this chart opened, and it is closed only after
\* the file is written.
C16_NoFigureOutlivesItsChart ==
    /\ [](/\ figures \in {0, 1}
          /\ BetweenCharts => figures = 0
          /\ AtSavefig => figures = 1)
    /\ [][/\ figures' > figures => (figures = 0 /\ Len(saved) = chart - 1)
          /\ figures' < figures => (figures' = 0 /\ Len(saved') = chart)
          /\ pc' = "chart_return" => figures' = 0]_vars

\* The last of the twelve charts of main(), the 3D chart, is about to return:
\* twelve files, no figure open.
C16_Witness ==
    /\ prog = "main"
    /\ pc = "chart_return"
    /\ chart = 12
    /\ Len(saved) = 12
    /\ figures = 0

====
